---- MODULE Spec2Model ----
(***************************************************************************)
(* A model of logseq-tools' github-backup.mjs: one scheduled run mirrors   *)
(* config.logseqPath into config.backupPath and commits/pushes the result. *)
(* The process is followed await by await; the file systems, the local     *)
(* repository in backupPath/.git and the remote live on between runs.      *)
(***************************************************************************)
EXTENDS Integers, Sequences, FiniteSets, TLC

VARIABLES
    cfg,              \* the parsed config.json
    disk,             \* directory path -> [exists, tree]
    repo,             \* the repository held in backupPath/.git
    remote,           \* the repository behind config.githubRepo
    pc,               \* where the process is
    exitCode,         \* the code process.exit was given (read when pc = "exited")
    attempt,          \* gitOperation's loop counter i
    currentLogLevel,  \* the logger's mutable level
    logs,             \* the events this run has emitted: [level, msg]
    trace,            \* the commands this run has executed: [cmd, res]
    fault,            \* why the last failing step failed: "none", "env", "state"
    run,              \* number of the current run
    atStart,          \* the disk, repository and remote as the current run found them
    edited,           \* were the notes edited between the previous run and this one
    signal,           \* the signal this run's process was sent: "none" or "SIGINT"
    msrc,             \* mirror development: the source tree
    mdst,             \* mirror development: the target tree
    mpre,             \* mirror development: the target tree before the mirror
    mstep,            \* mirror development: the step the mirror is at
    mpass,            \* mirror development: number of the current pass of the mirror
    gdir,             \* manifest development: the directory ensureGitignore works on
    gonce,            \* manifest development: that directory after the first call
    gcalls,           \* manifest development: number of calls made
    crontab,          \* cron manager: the user's crontab, as the lines of crontab -l
    cjobs,            \* cron manager: config.cronJobs
    cinit,            \* cron manager: the crontab before the first run
    cadds,            \* cron manager: number of runs with --add so far
    cdeleted,         \* cron manager: has a run with --delete been made
    xlayout,          \* converter: directory -> its entries, in readdir's order
    xfiles,           \* converter: Markdown file -> the image references it holds
    ximages,          \* converter: the image files that exist
    xopts,            \* converter: the options: [concurrency, keepOriginal]
    xstack,           \* converter: the calls of processDirectory in progress
    xtasks            \* converter: Markdown file -> its processMarkdownFile call

vars == <<cfg, disk, repo, remote, pc, exitCode, attempt, currentLogLevel, logs,
          trace, fault, run, atStart, edited, signal, msrc, mdst, mpre, mstep, mpass,
          gdir, gonce, gcalls, crontab, cjobs, cinit, cadds, cdeleted,
          xlayout, xfiles, ximages, xopts, xstack, xtasks>>

mvars == <<msrc, mdst, mpre, mstep, mpass>>

gvars == <<gdir, gonce, gcalls>>

cvars == <<crontab, cjobs, cinit, cadds, cdeleted>>

xvars == <<xlayout, xfiles, ximages, xopts, xstack, xtasks>>

----------------------------------------------------------------------------
(* Bounds of the model *)

\* number of scheduled runs that are followed
MaxRuns == 2

\* number of passes of the mirror over one target that are followed
MaxPasses == 2

\* number of lines of the longest ignore manifest ensureGitignore is given
MaxLines == 3

\* number of lines of the longest crontab the cron manager finds
MaxCronLines == 2

\* number of jobs of the longest config.cronJobs
MaxJobs == 2

\* number of runs of the cron manager with --add that are followed
MaxAdds == 3

----------------------------------------------------------------------------
(* Directory trees: a function from paths (sequences of entry names) to    *)
(* entries. A file's data is its text split on "\n".                       *)

Dir == [kind |-> "dir", data |-> <<>>]

File(lines) == [kind |-> "file", data |-> lines]

EmptyTree == [p \in {} |-> Dir]

NoDir == [exists |-> FALSE, tree |-> EmptyTree]

IsDir(t) == [exists |-> TRUE, tree |-> t]

\* the tree holding the entries of all the (path, entry) pairs in ps
TreeOf(ps) == [p \in {q[1] : q \in ps} |-> (CHOOSE q \in ps : q[1] = p)[2]]

\* t with the entries of u written over it
Overlay(t, u) ==
    [p \in DOMAIN t \cup DOMAIN u |-> IF p \in DOMAIN u THEN u[p] ELSE t[p]]

Restrict(t, ps) == [p \in ps |-> t[p]]

TopNames(t) == {p[1] : p \in DOMAIN t}

\* the files git tracks in a working tree: every file outside .git
WorkFiles(t) ==
    Restrict(t, {p \in DOMAIN t : p[1] # ".git" /\ t[p].kind = "file"})

----------------------------------------------------------------------------
(* clearDirectory *)

preserveFiles == {".git", "README.md", ".gitignore"}

\* the top-level entries clearDirectory removes
Removable(t) == TopNames(t) \ preserveFiles

\* t after fs.remove of the top-level entries in names (with all beneath them)
RemoveTop(t, names) == Restrict(t, {p \in DOMAIN t : p[1] \notin names})

clearDirectoryNoPreserve(t) == EmptyTree

\* a clear that unlinks the files and leaves the directories in place
clearDirectoryFilesOnly(t) ==
    RemoveTop(t, {name \in Removable(t) : t[<<name>>].kind = "file"})

clearDirectory(t) == RemoveTop(t, Removable(t))

\* what a clearDirectory that throws part-way may leave behind
ClearPartial(t) ==
    {RemoveTop(t, R) : R \in {X \in SUBSET Removable(t) : X # Removable(t) \/ X = {}}}

----------------------------------------------------------------------------
(* fs.copy(sourceDir, backupDir, copyOptions) *)

\* a filter that knows the repository directory only
copyFilterGitOnly(basename) == basename # ".git"

\* copyOptions.filter, on the base name of a source path
copyFilter(basename) ==
    /\ basename # ".git"
    /\ basename # ".trash"
    /\ basename # ".trash 2"
    /\ basename # ".Trash"

\* the filter is asked for every visited path; a rejected directory is not entered
Visited(s) == {p \in DOMAIN s : \A i \in 1..Len(p) : copyFilter(p[i])}

\* fs.copy refuses to write a directory over a file or a file over a directory
Conflicts(s, t) == {p \in Visited(s) \cap DOMAIN t : s[p].kind # t[p].kind}

\* copying the visited paths ps of s into t (overwrite: true)
CopyPaths(s, t, ps) == Overlay(t, Restrict(s, ps))

\* sets of paths a copy can have written: closed under parents, free of conflicts
Copyable(s, t) ==
    {ps \in SUBSET (Visited(s) \ Conflicts(s, t)) :
        \A p \in ps : Len(p) > 1 => SubSeq(p, 1, Len(p) - 1) \in ps}

\* a copy that keeps what a destination file holds and writes the source's text
\* after it
copyAllAppending(s, t) ==
    LET u == CopyPaths(s, t, Visited(s))
    IN [p \in DOMAIN u |->
           IF p \in Visited(s) \cap DOMAIN t /\ s[p].kind = "file" /\ t[p].kind = "file"
           THEN File(t[p].data \o s[p].data) ELSE u[p]]

copyAllShallow(s, t) == CopyPaths(s, t, {p \in Visited(s) : Len(p) = 1})

copyAll(s, t) == CopyPaths(s, t, Visited(s))

\* can the copy complete
CopyCompletes(s, t) == Conflicts(s, t) = {}

\* what a copy that throws part-way may leave behind
CopyPartial(s, t) ==
    {CopyPaths(s, t, ps) : ps \in {X \in Copyable(s, t) : X # Visited(s)}}

----------------------------------------------------------------------------
(* ensureGitignore *)

\* gitignoreContent.split("\n")
gitignoreContent == <<".trash", ".trash 2", ".Trash", "">>

\* the lines for which line.trim() is ""
BlankLines == {"", " ", "\t"}

RECURSIVE Dedup(_)
\* Array.from(new Set(lines)): the first occurrence of each line, in order
Dedup(lines) ==
    IF lines = <<>> THEN <<>>
    ELSE LET front == Dedup(SubSeq(lines, 1, Len(lines) - 1))
             last == lines[Len(lines)]
         IN IF \E i \in 1..Len(front) : front[i] = last
            THEN front ELSE Append(front, last)

NotBlank(line) == line \notin BlankLines

\* the merge without the pass through Set: every run appends the patterns again
updatedContentNoDedup(currentContent) ==
    SelectSeq(currentContent \o gitignoreContent, NotBlank) \o <<"">>

\* a merge that puts the patterns before the lines of the file
updatedContentPatternsFirst(currentContent) ==
    SelectSeq(Dedup(gitignoreContent \o currentContent), NotBlank) \o <<"">>

\* a merge that removes the repeated lines of the file only and then appends the
\* patterns
updatedContentAppendPatterns(currentContent) ==
    SelectSeq(Dedup(currentContent) \o gitignoreContent, NotBlank) \o <<"">>

\* the text of updatedContent, split on "\n"
updatedContent(currentContent) ==
    SelectSeq(Dedup(currentContent \o gitignoreContent), NotBlank) \o <<"">>

\* the tree after ensureGitignore(dir)
ensureGitignore(t) ==
    IF <<".gitignore">> \in DOMAIN t
    THEN [t EXCEPT ![<<".gitignore">>] = File(updatedContent(t[<<".gitignore">>].data))]
    ELSE Overlay(t, TreeOf({<< <<".gitignore">>, File(gitignoreContent) >>}))

----------------------------------------------------------------------------
(* The logger *)

LogLevel == [ERROR |-> 0, WARN |-> 1, INFO |-> 2, DEBUG |-> 3]

toLowerCase(s) ==
    CASE s = "DEBUG" -> "debug"
      [] s = "INFO" -> "info"
      [] s = "WARN" -> "warn"
      [] s = "ERROR" -> "error"
      [] OTHER -> s

\* the switch without toLowerCase(): the upper-case names log() is called with
\* all fall to the default
getLogLevelValueCaseSensitive(level) ==
    CASE level = "debug" -> LogLevel.DEBUG
      [] level = "info" -> LogLevel.INFO
      [] level = "warn" -> LogLevel.WARN
      [] OTHER -> LogLevel.ERROR

getLogLevelValue(level) ==
    CASE toLowerCase(level) = "debug" -> LogLevel.DEBUG
      [] toLowerCase(level) = "info" -> LogLevel.INFO
      [] toLowerCase(level) = "warn" -> LogLevel.WARN
      [] OTHER -> LogLevel.ERROR

\* log(level, message) with the logger at level cur: the events emitted so far
LogAt(cur, ls, level, message) ==
    IF getLogLevelValue(level) <= cur
    THEN ls \cup {[level |-> level, msg |-> message]}
    ELSE ls

Log(ls, level, message) == LogAt(currentLogLevel, ls, level, message)

\* cleanup, the listener of the process's "exit" event
cleanup(ls) == Log(ls, "INFO", "Cleanup completed")

\* process.exit(code): the exit listeners run, the process is gone
Exit(code, ls) ==
    /\ pc' = "exited"
    /\ exitCode' = code
    /\ logs' = cleanup(ls)

handleErrorExitsZero(message, ls) == Exit(0, Log(ls, "ERROR", message))

handleError(message, ls) == Exit(1, Log(ls, "ERROR", message))

\* the process goes on to its next await
Goto(next, ls) ==
    /\ pc' = next
    /\ exitCode' = exitCode
    /\ logs' = ls

----------------------------------------------------------------------------
(* The worlds a run can find *)

URL == "git@github.com:user/notes.git"

\* config.json as parsed; "" stands for a key that is missing or empty
Configs ==
    [logseqPath : {"", "/notes"},
     backupPath : {"", "/backup", "/notes"},
     githubRepo : {"", URL},
     logLevel : {"", "debug"}]

Dirs == {"/notes", "/backup"}

\* two states of the notes; the second holds a trash directory, a repository of
\* its own and an ignore manifest
Notes1 ==
    TreeOf({<< <<"a.md">>, File(<<"one", "">>) >>})

Notes2 ==
    TreeOf({<< <<"a.md">>, File(<<"two", "">>) >>,
            << <<"pages">>, Dir >>,
            << <<"pages", "b.md">>, File(<<"b", "">>) >>,
            << <<".trash">>, Dir >>,
            << <<".trash", "old.md">>, File(<<"old", "">>) >>,
            << <<".git">>, Dir >>,
            << <<".gitignore">>, File(<<"*.log", "">>) >>})

SourceTrees == {Notes1, Notes2}

\* what the remote's main branch holds when it was created on the hosting site
ForeignFiles == TreeOf({<< <<"README.md">>, File(<<"# notes", "">>) >>})

ForeignCommit == [by |-> "other", n |-> 1, files |-> ForeignFiles]

\* a backup directory that holds stale entries and no repository
StaleTree ==
    TreeOf({<< <<"old.md">>, File(<<"stale", "">>) >>,
            << <<"README.md">>, File(<<"mine", "">>) >>})

\* a backup directory the operator cloned from the remote
ClonedTree == Overlay(ForeignFiles, TreeOf({<< <<".git">>, Dir >>}))

\* the repository of backupPath/.git; meaningful while backupPath/.git exists
\* origin: the URL of the remote origin, "" when there is none; branch: the branch
\* HEAD is on; hist: that branch's commits; index: the staged files; tracking:
\* origin/main as last fetched
NoRepo ==
    [origin |-> "", branch |-> "", hist |-> <<>>, index |-> EmptyTree, tracking |-> <<>>]

ClonedRepo ==
    [origin |-> URL, branch |-> "main", hist |-> <<ForeignCommit>>,
     index |-> ForeignFiles, tracking |-> <<ForeignCommit>>]

\* the files of a branch's last commit
TipFiles(commits) ==
    IF commits = <<>> THEN EmptyTree ELSE commits[Len(commits)].files

\* the remote: the commits of its branch main, <<>> when it has no such branch
EmptyRemote == [main |-> <<>>]

ForeignRemote == [main |-> <<ForeignCommit>>]

\* the branch a fresh git init starts on (init.defaultBranch, git's version)
DefaultBranches == {"main", "master"}

IsPrefix(a, b) == Len(a) <= Len(b) /\ SubSeq(b, 1, Len(a)) = a

----------------------------------------------------------------------------
(* What the git commands do in a given state when nothing outside fails *)

src == cfg.logseqPath

bak == cfg.backupPath

BackupTree == disk[bak].tree

\* a test that never finds the repository
isGitRepoNever == FALSE

isGitRepo == <<".git">> \in DOMAIN BackupTree

\* the output of git status --porcelain, trimmed: "" when the working files are
\* those of the last commit
StatusOutput ==
    IF WorkFiles(BackupTree) = TipFiles(repo.hist) THEN "" ELSE "?? changes"

NoEntry == [kind |-> "none", data |-> <<>>]

Get(t, p) == IF p \in DOMAIN t THEN t[p] ELSE NoEntry

\* git checkout main, with a branch main to switch to: refused when a path that
\* differs between the two commits has local content of its own
SwitchRefused(work, from, to) ==
    \E p \in DOMAIN work \cup DOMAIN from \cup DOMAIN to :
        /\ Get(from, p) # Get(to, p)
        /\ Get(work, p) # Get(from, p)
        /\ Get(work, p) # Get(to, p)

\* the working files after the switch: paths that differ between the commits take
\* the new commit's state, the others keep their local content
SwitchFiles(work, from, to) ==
    LET new(p) == IF Get(from, p) = Get(to, p) THEN Get(work, p) ELSE Get(to, p)
        all == DOMAIN work \cup DOMAIN from \cup DOMAIN to
    IN [p \in {q \in all : new(q) # NoEntry} |-> new(p)]

\* the backup tree with its tracked files replaced by files
WithWorkFiles(t, files) ==
    Overlay(Restrict(t, {p \in DOMAIN t : p[1] = ".git" \/ t[p].kind = "dir"}), files)

\* git checkout main || git checkout -b main, in repository r over the tree t:
\* the repository and the tree afterwards
Checkout(r, t) ==
    IF r.branch = "main" /\ r.hist # <<>>
    THEN \* already on main
         [repo |-> r, tree |-> t]
    ELSE IF /\ r.tracking # <<>>
            /\ ~SwitchRefused(WorkFiles(t), TipFiles(r.hist), TipFiles(r.tracking))
         THEN \* no local main: git creates it from origin/main and switches to it
              [repo |-> [r EXCEPT !.branch = "main", !.hist = r.tracking,
                                  !.index = TipFiles(r.tracking)],
               tree |-> WithWorkFiles(t, SwitchFiles(WorkFiles(t), TipFiles(r.hist),
                                                     TipFiles(r.tracking)))]
         ELSE \* git checkout -b main: main is created where HEAD is
              [repo |-> [r EXCEPT !.branch = "main"], tree |-> t]

\* how an executed command can end: <<result, cause>>. A command that the state
\* allows can still fail or time out for a cause outside the program.
Outcomes(can) ==
    {<<"fail", "env">>, <<"timeout", "env">>}
        \cup (IF can THEN {<<"ok", "none">>} ELSE {<<"fail", "state">>})

----------------------------------------------------------------------------
(* The process *)

\* the command lines the claims speak of
PROBE == "git ls-remote --exit-code --heads origin main"

STATUS == "git status --porcelain"

ADD == "git add ."

COMMIT == "git commit"

PUSH == "git push -u origin main"

FETCH == "git fetch origin"

CHECKOUT == "git checkout main || git checkout -b main"

requiredFieldsPathsOnly == {"logseqPath", "backupPath"}

requiredFields == {"logseqPath", "backupPath", "githubRepo"}

\* validateConfig returns (does not throw)
validateConfig(config) == \A field \in requiredFields : config[field] # ""

maxRetries == 3

SetDisk(tree) == disk' = [disk EXCEPT ![bak] = IsDir(tree)]

RecordOut(command, res, out) ==
    trace' = Append(trace, [cmd |-> command, res |-> res, out |-> out])

Record(command, res) == RecordOut(command, res, "")

\* how runCommand(command) ends when the command ends with res; it neither
\* returns nor throws when handleError ends the process inside it
runCommandRethrows(command, res) == [returned |-> res = "ok", threw |-> res # "ok"]

runCommand(command, res) == [returned |-> res = "ok", threw |-> FALSE]

\* error.code of the error execAsync rejects with. exec ends a child that
\* outlives the timeout with SIGTERM and rejects with killed: true, signal:
\* "SIGTERM" and code: null; for a child that ended by itself code is its exit
\* status
errorCode(res) == IF res = "timeout" THEN "null" ELSE "1"

\* the catch block of runCommand
RunCommandCatch(res, ls) ==
    IF errorCode(res) = "ETIMEDOUT"
    THEN handleError("Command timed out", ls)
    ELSE handleError("Error executing command", ls)

\* the catch of the caller of gitOperation: the try around the push, or the
\* .catch of backupAndPush()
Caught(command, ls) ==
    IF command = PUSH
    THEN Exit(0, Log(Log(ls, "ERROR", "Error pushing to remote repository:"),
                     "WARN", "Changes are committed locally. Please push manually when possible."))
    ELSE handleError("Unhandled error in backupAndPush:", ls)

\* one pass of gitOperation's loop over command, which ends with res; next is
\* where backupAndPush goes on when gitOperation returns, "done" when it returns
\* itself and the process ends with code 0
gitOperation(command, res, next) ==
    LET r == runCommand(command, res)
        ls == Log(Log(logs, "DEBUG", "Attempting Git operation"), "DEBUG", "Executing command")
        failed == Log(ls, "WARN", "Git operation failed")
    IN /\ Record(command, res)
       /\ CASE r.returned /\ next # "done" ->
                 /\ Goto(next, Log(ls, "INFO", "Git operation successful"))
                 /\ attempt' = 0
            [] r.returned /\ next = "done" ->
                 /\ Exit(0, Log(Log(ls, "INFO", "Git operation successful"),
                                "INFO", "Backup and push completed successfully"))
                 /\ attempt' = 0
            [] r.threw /\ attempt # maxRetries - 1 ->
                 /\ Goto(pc, failed)
                 /\ attempt' = attempt + 1
            [] r.threw /\ attempt = maxRetries - 1 ->
                 /\ Caught(command, failed)
                 /\ attempt' = attempt
            [] OTHER ->
                 /\ RunCommandCatch(res, ls)
                 /\ attempt' = attempt

\* config.json is read and validated, the level is set, backupAndPush starts
LoadConfig ==
    /\ pc = "load"
    /\ IF validateConfig(cfg)
       THEN LET level == IF cfg.logLevel # ""
                         THEN getLogLevelValue(cfg.logLevel) ELSE currentLogLevel
                ls1 == Log(logs, "INFO", "Configuration validated successfully")
                ls2 == IF cfg.logLevel # ""
                       THEN LogAt(level, ls1, "INFO", "Log level set") ELSE ls1
                ls3 == LogAt(level, ls2, "INFO", "Configuration file read and validated")
            IN /\ currentLogLevel' = level
               /\ Goto("checkSource", LogAt(level, ls3, "INFO", "Starting backup process"))
       ELSE /\ handleError("Error reading or validating config file:", logs)
            /\ UNCHANGED currentLogLevel
    /\ UNCHANGED <<cfg, disk, repo, remote, attempt, trace, fault, run, atStart, edited, signal, mvars, gvars, cvars, xvars>>

\* if (!(await fs.pathExists(sourceDir))) handleError(...)
CheckSource ==
    /\ pc = "checkSource"
    /\ IF disk[src].exists
       THEN Goto("ensureDir", logs)
       ELSE handleError("Source directory does not exist", logs)
    /\ UNCHANGED <<cfg, disk, repo, remote, attempt, currentLogLevel, trace, fault,
                   run, atStart, edited, signal, mvars, gvars, cvars, xvars>>

\* await fs.ensureDir(backupDir)
EnsureDir ==
    /\ pc = "ensureDir"
    /\ \/ /\ SetDisk(disk[bak].tree)
          /\ Goto("clear", Log(logs, "INFO", "Backup directory ensured"))
          /\ UNCHANGED fault
       \/ /\ handleError("Error creating backup directory", logs)
          /\ fault' = "env"
          /\ UNCHANGED disk
    /\ UNCHANGED <<cfg, repo, remote, attempt, currentLogLevel, trace, run, atStart, edited, signal, mvars, gvars, cvars, xvars>>

\* the events clearDirectory logs on a tree
ClearLogs(t, ls) ==
    LET ls1 == Log(ls, "INFO", "Clearing directory")
        ls2 == IF TopNames(t) \cap preserveFiles # {}
               THEN Log(ls1, "DEBUG", "Preserving file") ELSE ls1
        ls3 == IF Removable(t) # {} THEN Log(ls2, "DEBUG", "Removed") ELSE ls2
    IN Log(ls3, "INFO", "Cleared directory")

\* await clearDirectory(backupDir)
ClearDir ==
    /\ pc = "clear"
    /\ \/ /\ SetDisk(clearDirectory(BackupTree))
          /\ Goto("copy", Log(ClearLogs(BackupTree, logs), "INFO",
                              "Copying files from source to backup directory"))
          /\ UNCHANGED fault
       \/ /\ \E t \in ClearPartial(BackupTree) : SetDisk(t)
          /\ handleError("Error clearing backup directory", logs)
          /\ fault' = "env"
    /\ UNCHANGED <<cfg, repo, remote, attempt, currentLogLevel, trace, run, atStart, edited, signal, mvars, gvars, cvars, xvars>>

basename(path) == IF path = "/notes" THEN "notes" ELSE "backup"

\* await fs.copy(sourceDir, backupDir, copyOptions). fs.copy rejects at once when
\* both paths name the same directory, and copies nothing when the filter
\* rejects sourceDir itself
CopyFiles ==
    /\ pc = "copy"
    /\ IF src = bak
       THEN /\ handleError("Error copying files:", logs)
            /\ fault' = "state"
            /\ UNCHANGED disk
       ELSE \/ /\ CopyCompletes(disk[src].tree, BackupTree)
               /\ SetDisk(IF copyFilter(basename(src))
                          THEN copyAll(disk[src].tree, BackupTree) ELSE BackupTree)
               /\ Goto("gitignore", Log(logs, "INFO", "Files copied successfully"))
               /\ UNCHANGED fault
            \/ /\ \E t \in CopyPartial(disk[src].tree, BackupTree) : SetDisk(t)
               /\ handleError("Error copying files:", logs)
               /\ fault' = IF CopyCompletes(disk[src].tree, BackupTree)
                            THEN "env" ELSE "state"
    /\ UNCHANGED <<cfg, repo, remote, attempt, currentLogLevel, trace, run, atStart, edited, signal, mvars, gvars, cvars, xvars>>

\* await ensureGitignore(backupDir); then process.chdir(backupDir)
EnsureGitignore ==
    /\ pc = "gitignore"
    /\ \/ /\ SetDisk(ensureGitignore(BackupTree))
          /\ Goto("detect", Log(logs, "INFO",
                                IF <<".gitignore">> \in DOMAIN BackupTree
                                THEN ".gitignore file updated"
                                ELSE ".gitignore file created"))
          /\ UNCHANGED fault
       \/ /\ handleError("Error managing .gitignore file:", logs)
          /\ fault' = "env"
          /\ UNCHANGED disk
    /\ UNCHANGED <<cfg, repo, remote, attempt, currentLogLevel, trace, run, atStart, edited, signal, mvars, gvars, cvars, xvars>>

\* const isGitRepo = await fs.pathExists(path.join(backupDir, ".git"))
Detect ==
    /\ pc = "detect"
    /\ IF isGitRepo
       THEN Goto("setUrl", Log(logs, "INFO", "Updating existing Git repository"))
       ELSE Goto("init", Log(logs, "INFO", "Initializing new Git repository"))
    /\ UNCHANGED <<cfg, disk, repo, remote, attempt, currentLogLevel, trace, fault,
                   run, atStart, edited, signal, mvars, gvars, cvars, xvars>>

\* await gitOperation("git init")
GitInit ==
    /\ pc = "init"
    /\ \E o \in Outcomes(TRUE), b \in DefaultBranches :
          /\ gitOperation("git init", o[1], "remoteAdd")
          /\ fault' = o[2]
          /\ IF o[1] = "ok"
             THEN /\ SetDisk(Overlay(BackupTree, TreeOf({<< <<".git">>, Dir >>})))
                  /\ repo' = [NoRepo EXCEPT !.branch = b]
             ELSE UNCHANGED <<disk, repo>>
    /\ UNCHANGED <<cfg, remote, currentLogLevel, run, atStart, edited, signal, mvars, gvars, cvars, xvars>>

\* await gitOperation(`git remote add origin ${githubRepo}`)
RemoteAdd ==
    /\ pc = "remoteAdd"
    /\ \E o \in Outcomes(repo.origin = "") :
          /\ gitOperation("git remote add origin", o[1], "probe")
          /\ fault' = o[2]
          /\ repo' = IF o[1] = "ok" THEN [repo EXCEPT !.origin = cfg.githubRepo] ELSE repo
    /\ UNCHANGED <<cfg, disk, remote, currentLogLevel, run, atStart, edited, signal, mvars, gvars, cvars, xvars>>

\* await gitOperation(`git remote set-url origin ${githubRepo}`)
SetUrl ==
    /\ pc = "setUrl"
    /\ \E o \in Outcomes(repo.origin # "") :
          /\ gitOperation("git remote set-url origin", o[1], "fetch")
          /\ fault' = o[2]
          /\ repo' = IF o[1] = "ok" THEN [repo EXCEPT !.origin = cfg.githubRepo] ELSE repo
    /\ UNCHANGED <<cfg, disk, remote, currentLogLevel, run, atStart, edited, signal, mvars, gvars, cvars, xvars>>

\* await gitOperation("git fetch origin")
Fetch ==
    /\ pc = "fetch"
    /\ \E o \in Outcomes(TRUE) :
          /\ gitOperation(FETCH, o[1], "checkout")
          /\ fault' = o[2]
          /\ repo' = IF o[1] = "ok" THEN [repo EXCEPT !.tracking = remote.main] ELSE repo
    /\ UNCHANGED <<cfg, disk, remote, currentLogLevel, run, atStart, edited, signal, mvars, gvars, cvars, xvars>>

\* await gitOperation("git checkout main || git checkout -b main")
GitCheckout ==
    /\ pc = "checkout"
    /\ \E o \in Outcomes(TRUE) :
          /\ gitOperation(CHECKOUT, o[1], "probe")
          /\ fault' = o[2]
          /\ IF o[1] = "ok"
             THEN /\ repo' = Checkout(repo, BackupTree).repo
                  /\ SetDisk(Checkout(repo, BackupTree).tree)
             ELSE UNCHANGED <<disk, repo>>
    /\ UNCHANGED <<cfg, remote, currentLogLevel, run, atStart, edited, signal, mvars, gvars, cvars, xvars>>

\* await runCommand("git ls-remote --exit-code --heads origin main", 10000), which
\* ends with a non-zero code when the remote has no branch main
Probe ==
    /\ pc = "probe"
    /\ \E o \in Outcomes(remote.main # <<>>) :
          LET r == runCommand(PROBE, o[1])
              ls == Log(Log(logs, "INFO", "Checking remote repository accessibility"),
                        "DEBUG", "Executing command")
          IN /\ Record(PROBE, o[1])
             /\ fault' = o[2]
             /\ CASE r.returned ->
                       Goto("status", Log(Log(ls, "INFO", "Remote repository is accessible"),
                                          "INFO", "Checking for changes"))
                  [] r.threw ->
                       handleError("Error accessing remote repository. Please check your GitHub credentials and repository URL.", ls)
                  [] OTHER -> RunCommandCatch(o[1], ls)
    /\ UNCHANGED <<cfg, disk, repo, remote, attempt, currentLogLevel, run, atStart,
                   edited, signal, mvars, gvars, cvars, xvars>>

changesDetectedAlways(status) == TRUE

\* if (status)
changesDetected(status) == status # ""

\* const status = await runCommand("git status --porcelain"); if (status) ...
Status ==
    /\ pc = "status"
    /\ \E o \in Outcomes(TRUE) :
          LET r == runCommand(STATUS, o[1])
              ls == Log(logs, "DEBUG", "Executing command")
          IN /\ RecordOut(STATUS, o[1],
                          IF o[1] = "ok" THEN StatusOutput ELSE "")
             /\ fault' = o[2]
             /\ CASE r.returned /\ changesDetected(StatusOutput) ->
                       Goto("add", Log(ls, "INFO",
                                       "Changes detected. Proceeding with commit and push."))
                  [] r.returned /\ ~changesDetected(StatusOutput) ->
                       Exit(0, Log(ls, "INFO", "No changes detected. Skipping commit and push."))
                  [] r.threw -> handleError("Unhandled error in backupAndPush:", ls)
                  [] OTHER -> RunCommandCatch(o[1], ls)
    /\ UNCHANGED <<cfg, disk, repo, remote, attempt, currentLogLevel, run, atStart,
                   edited, signal, mvars, gvars, cvars, xvars>>

\* await gitOperation("git add .")
GitAdd ==
    /\ pc = "add"
    /\ \E o \in Outcomes(TRUE) :
          /\ gitOperation(ADD, o[1], "commit")
          /\ fault' = o[2]
          /\ repo' = IF o[1] = "ok" THEN [repo EXCEPT !.index = WorkFiles(BackupTree)]
                                     ELSE repo
    /\ UNCHANGED <<cfg, disk, remote, currentLogLevel, run, atStart, edited, signal, mvars, gvars, cvars, xvars>>

\* await gitOperation(`git commit -m "Backup: ${date}"`)
GitCommit ==
    /\ pc = "commit"
    /\ \E o \in Outcomes(repo.index # TipFiles(repo.hist)) :
          /\ gitOperation(COMMIT, o[1], "push")
          /\ fault' = o[2]
          /\ repo' = IF o[1] = "ok"
                      THEN [repo EXCEPT !.hist = Append(@, [by |-> "backup", n |-> run,
                                                            files |-> repo.index])]
                      ELSE repo
    /\ UNCHANGED <<cfg, disk, remote, currentLogLevel, run, atStart, edited, signal, mvars, gvars, cvars, xvars>>

\* try { await gitOperation("git push -u origin main") } catch ...; after it
\* backupAndPush returns and the process ends with code 0
GitPush ==
    /\ pc = "push"
    /\ \E o \in Outcomes(repo.branch = "main" /\ IsPrefix(remote.main, repo.hist)) :
          /\ gitOperation(PUSH, o[1], "done")
          /\ fault' = o[2]
          /\ IF o[1] = "ok"
             THEN /\ remote' = [remote EXCEPT !.main = repo.hist]
                  /\ repo' = [repo EXCEPT !.tracking = repo.hist]
             ELSE UNCHANGED <<remote, repo>>
    /\ UNCHANGED <<cfg, disk, currentLogLevel, run, atStart, edited, signal, mvars, gvars, cvars, xvars>>

\* what a shell reports for a process that SIGINT ended: 128 + 2
KilledBySigint == 130

\* process.on("SIGINT", ...) has been executed: the statement comes after the
\* block that awaits config.json and before the call of backupAndPush
sigintListenerRegistered == pc # "load"

\* what the interrupted step may have done to the backup directory by then
InterruptedTrees ==
    IF pc = "clear" THEN ClearPartial(BackupTree)
    ELSE IF src # bak THEN CopyPartial(disk[src].tree, BackupTree) \cup {BackupTree}
    ELSE {BackupTree}

\* SIGINT reaches the process while it waits at an await. With the listener
\* registered: log, cleanup(), process.exit(2). Before that the signal has its
\* default effect: the process ends at once, no listener runs. What a git
\* command in flight still does to the repository after that is left out.
Interrupt ==
    /\ pc # "exited"
    /\ signal' = "SIGINT"
    /\ fault' = "env"
    /\ IF sigintListenerRegistered
       THEN /\ Exit(2, cleanup(Log(logs, "WARN", "Script interrupted")))
            /\ IF pc \in {"clear", "copy"}
               THEN \E t \in InterruptedTrees : SetDisk(t)
               ELSE UNCHANGED disk
       ELSE /\ pc' = "exited"
            /\ exitCode' = KilledBySigint
            /\ UNCHANGED <<logs, disk>>
    /\ UNCHANGED <<cfg, repo, remote, attempt, currentLogLevel, trace, run, atStart,
                   edited, mvars, gvars, cvars, xvars>>

----------------------------------------------------------------------------
(* Runs *)

InitProcess ==
    /\ pc = "load"
    /\ exitCode = 0
    /\ attempt = 0
    /\ currentLogLevel = LogLevel.INFO
    /\ logs = {}
    /\ trace = <<>>
    /\ fault = "none"
    /\ signal = "none"

NoConverter ==
    /\ xlayout = <<>>
    /\ xfiles = <<>>
    /\ ximages = {}
    /\ xopts = <<>>
    /\ xstack = <<>>
    /\ xtasks = <<>>

NoCron ==
    /\ crontab = <<>>
    /\ cjobs = <<>>
    /\ cinit = <<>>
    /\ cadds = 0
    /\ cdeleted = FALSE

NoManifest ==
    /\ gdir = EmptyTree
    /\ gonce = EmptyTree
    /\ gcalls = 0

NoMirror ==
    /\ msrc = EmptyTree
    /\ mdst = EmptyTree
    /\ mpre = EmptyTree
    /\ mstep = "off"
    /\ mpass = 0

Init ==
    /\ cfg \in Configs
    /\ \E s \in {NoDir} \cup {IsDir(t) : t \in SourceTrees},
          b \in {NoDir, IsDir(EmptyTree), IsDir(StaleTree), IsDir(ClonedTree)} :
          /\ disk = [d \in Dirs |-> IF d = "/notes" THEN s ELSE b]
          /\ repo = IF b = IsDir(ClonedTree) THEN ClonedRepo ELSE NoRepo
          /\ remote \in IF b = IsDir(ClonedTree)
                         THEN {ForeignRemote} ELSE {EmptyRemote, ForeignRemote}
    /\ InitProcess
    /\ run = 1
    /\ atStart = [disk |-> disk, repo |-> repo, remote |-> remote, exit |-> 0]
    /\ edited = FALSE
    /\ NoMirror
    /\ NoManifest
    /\ NoCron
    /\ NoConverter

\* the scheduler starts the next run; the user may have edited the notes since
\* the run before it
StartRun ==
    /\ pc = "exited"
    /\ run < MaxRuns
    /\ \E t \in {disk["/notes"].tree} \cup {u \in SourceTrees : disk["/notes"].exists} :
          /\ disk' = [disk EXCEPT !["/notes"].tree = t]
          /\ edited' = (t # disk["/notes"].tree)
    /\ pc' = "load"
    /\ exitCode' = 0
    /\ attempt' = 0
    /\ currentLogLevel' = LogLevel.INFO
    /\ logs' = {}
    /\ trace' = <<>>
    /\ fault' = "none"
    /\ run' = run + 1
    /\ atStart' = [disk |-> disk', repo |-> repo, remote |-> remote, exit |-> exitCode]
    /\ signal' = "none"
    /\ UNCHANGED <<cfg, repo, remote, mvars, gvars, cvars, xvars>>

Next ==
    \/ LoadConfig
    \/ CheckSource
    \/ EnsureDir
    \/ ClearDir
    \/ CopyFiles
    \/ EnsureGitignore
    \/ Detect
    \/ GitInit
    \/ RemoteAdd
    \/ SetUrl
    \/ Fetch
    \/ GitCheckout
    \/ Probe
    \/ Status
    \/ GitAdd
    \/ GitCommit
    \/ GitPush
    \/ Interrupt
    \/ StartRun

Spec == Init /\ [][Next]_vars

----------------------------------------------------------------------------
(* Reading a run's trace *)

Ran(c) == \E i \in DOMAIN trace : trace[i].cmd = c

Succeeded(c) == \E i \in DOMAIN trace : trace[i].cmd = c /\ trace[i].res = "ok"

Failed(c) == \E i \in DOMAIN trace : trace[i].cmd = c /\ trace[i].res # "ok"

Times(c) == Cardinality({i \in DOMAIN trace : trace[i].cmd = c})

LastCommand == trace[Len(trace)]

\* the status query returned out
StatusReturned(out) ==
    \E i \in DOMAIN trace :
        trace[i].cmd = STATUS /\ trace[i].res = "ok" /\ trace[i].out = out

\* the commits the current run has created on the branch HEAD is on
CommitsOfRun ==
    {i \in DOMAIN repo.hist : repo.hist[i].by = "backup" /\ repo.hist[i].n = run}

Ended == pc = "exited"

\* the configuration was read and found valid: backupAndPush has been called
ValidRun == validateConfig(cfg) /\ pc # "load" /\ exitCode # KilledBySigint

----------------------------------------------------------------------------
(* C1: push rejected *)

\* the working tree was dirty, git add and git commit succeeded, the push failed
PushRejected ==
    /\ Ended
    /\ StatusReturned("?? changes")
    /\ Succeeded(ADD)
    /\ Succeeded(COMMIT)
    /\ Failed(PUSH)

\* C1: in a run where the working tree is dirty, add and commit succeed and the
\* push fails, the commit stays in the local history, an error-level event is
\* logged and the process ends with exit code 0.
C1_PushFailureIsNotFatal ==
    PushRejected =>
        /\ CommitsOfRun # {}
        /\ \E e \in logs : e.level = "ERROR"
        /\ exitCode = 0

----------------------------------------------------------------------------
(* C2: retry bound *)

GitOperationCommands ==
    {"git init", "git remote add origin", "git remote set-url origin", FETCH,
     CHECKOUT, ADD, COMMIT, PUSH}

\* the events the callers of gitOperation log when it throws
CallerEvents ==
    {[level |-> "ERROR", msg |-> "Error pushing to remote repository:"],
     [level |-> "ERROR", msg |-> "Unhandled error in backupAndPush:"]}

\* C2: a command under gitOperation that fails on every attempt is executed
\* exactly maxRetries = 3 times, and then its error reaches the caller of
\* gitOperation.
C2_RetryBound ==
    (Ended /\ trace # <<>> /\ LastCommand.cmd \in GitOperationCommands
        /\ LastCommand.res # "ok") =>
        /\ Times(LastCommand.cmd) = maxRetries
        /\ logs \cap CallerEvents # {}

----------------------------------------------------------------------------
(* C3: change gate *)

PublishCommands == {ADD, COMMIT, PUSH}

NoPublish == \A c \in PublishCommands : ~Ran(c)

\* every push of the trace comes after a commit that succeeded
PushOnlyAfterCommit ==
    \A i \in DOMAIN trace :
        trace[i].cmd = PUSH =>
            \E j \in 1..(i - 1) : trace[j].cmd = COMMIT /\ trace[j].res = "ok"

\* C3 as stated: when the status query returns nothing, no add, commit or push
\* runs and the run exits 0; when it returns something, the run creates exactly
\* one commit, and pushes only after it.
C3_ChangeGateExactlyOneCommit ==
    Ended =>
        /\ StatusReturned("") => NoPublish /\ exitCode = 0
        /\ StatusReturned("?? changes") =>
               Cardinality(CommitsOfRun) = 1 /\ PushOnlyAfterCommit

\* C3 amended: when the status query returns nothing, no add, commit or push runs
\* and the run exits 0; a run creates a commit only after a status query that
\* returned something, and then at most one: exactly one once git add and git
\* commit have both succeeded, none when either of them fails; a push is
\* attempted only after that commit.
C3_ChangeGate ==
    /\ StatusReturned("") => NoPublish /\ (Ended => exitCode = 0)
    /\ ~StatusReturned("?? changes") => NoPublish /\ CommitsOfRun = {}
    /\ Cardinality(CommitsOfRun) =
          (IF Succeeded(ADD) /\ Succeeded(COMMIT) THEN 1 ELSE 0)
    /\ PushOnlyAfterCommit

\* a dirty run has committed and gone on to push
C3_Witness == StatusReturned("?? changes") /\ Cardinality(CommitsOfRun) = 1 /\ Ran(PUSH)

----------------------------------------------------------------------------
(* C4: unreachable remote *)

\* the probe, or the fetch before it, failed or timed out
RemoteUnreachable == Failed(PROBE) \/ Failed(FETCH)

\* C4: in a run where the reachability probe (or the remote command before it)
\* fails or times out, the process exits with code 1 and no git add, git commit
\* or git push is executed.
C4_UnreachableRemoteIsFatal ==
    RemoteUnreachable => Ended /\ exitCode = 1 /\ NoPublish

\* the probe timed out
C4_Witness ==
    /\ Ended
    /\ trace # <<>>
    /\ LastCommand.cmd = PROBE
    /\ LastCommand.res = "timeout"

----------------------------------------------------------------------------
(* C5: fresh setup *)

\* the run found no backup directory or an empty one, a source with content, and
\* a configuration that names a remote
FreshSetup ==
    /\ ValidRun
    /\ src # bak
    /\ atStart.disk[bak].tree = EmptyTree
    /\ disk[src].exists
    /\ disk[src].tree # EmptyTree

\* C5: a run that starts from a fresh setup, and in which nothing outside the
\* program fails, initialises the repository, adds origin, passes the probe,
\* creates exactly one commit, pushes it and exits with code 0.
C5_FreshSetupPublishes ==
    (FreshSetup /\ Ended /\ fault # "env") =>
        /\ Succeeded("git init")
        /\ Succeeded("git remote add origin")
        /\ Succeeded(PROBE)
        /\ Cardinality(CommitsOfRun) = 1
        /\ Succeeded(PUSH)
        /\ exitCode = 0

----------------------------------------------------------------------------
(* C6: an unpushed commit and the next run *)

\* the run before this one created a commit that its push did not deliver, and
\* the notes have not been edited since
UnpushedAtStart ==
    /\ ValidRun
    /\ run > 1
    /\ ~edited
    /\ atStart.repo.branch = "main"
    /\ atStart.repo.hist # <<>>
    /\ atStart.repo.hist[Len(atStart.repo.hist)].by = "backup"
    /\ atStart.repo.hist[Len(atStart.repo.hist)].n = run - 1
    /\ atStart.remote.main # atStart.repo.hist

\* C6 as stated: the run that follows a run whose commit was not pushed, with the
\* source unchanged and nothing outside the program failing, attempts the push
\* again.
C6_NextRunPushesAgain ==
    (UnpushedAtStart /\ Ended /\ fault # "env") => Ran(PUSH)

\* C6 amended: the run that follows a run whose commit was not pushed, with the
\* source unchanged, attempts no push: its status query finds the working tree
\* clean, so the commit stays unpushed until a later run has a new change to
\* commit or the operator pushes by hand.
C6_NextRunDoesNotPush ==
    UnpushedAtStart =>
        /\ ~Ran(PUSH)
        /\ ~StatusReturned("?? changes")
        /\ remote.main # repo.hist

\* such a run has come to its end through a clean status query
C6_Witness == UnpushedAtStart /\ Ended /\ StatusReturned("") /\ exitCode = 0

----------------------------------------------------------------------------
(* C7: safe repetition *)

\* C7: a run that follows a run that stopped with a fatal error, and in which
\* nothing outside the program fails while the remote has its branch main, gets
\* through the mirror, the repository reconciliation and the probe, and exits 0
\* (unless its push is refused).
C7_LaterRunRecovers ==
    (ValidRun /\ Ended /\ run > 1 /\ atStart.exit = 1 /\ src # bak
        /\ disk[src].exists /\ remote.main # <<>> /\ fault # "env") =>
        /\ Succeeded(PROBE)
        /\ ~Failed(PUSH) => exitCode = 0

----------------------------------------------------------------------------
(* C8: the source is read-only *)

\* C8: whatever paths the validated configuration names, a run creates, changes
\* and deletes nothing in the source tree.
C8_SourceIsReadOnly ==
    ValidRun => disk[src] = atStart.disk[src]

----------------------------------------------------------------------------
(* C9: the layout of the backup directory at the end of a run *)

\* t holds the .git directory
HasGitDir(t) == <<".git">> \in DOMAIN t /\ t[<<".git">>].kind = "dir"

\* t holds a copy of every entry of s that the copy visits
HoldsCopy(s, t) == \A p \in Visited(s) : p \in DOMAIN t /\ t[p] = s[p]

\* the same, the ignore manifest of s being the one ensureGitignore makes of it
HoldsCopyWithManifest(s, t) ==
    \A p \in Visited(s) :
        /\ p \in DOMAIN t
        /\ t[p] = IF p = <<".gitignore">> /\ s[p].kind = "file"
                  THEN File(updatedContent(s[p].data)) ELSE s[p]

NoBranchSwitch ==
    Ran(CHECKOUT) => atStart.repo.branch = "main" /\ atStart.repo.hist # <<>>

----------------------------------------------------------------------------
(* The mirror on its own: clearDirectory then fs.copy, over every source and *)
(* every target tree built from the entries below                            *)

\* the trees made of one choice per group of entries
TreesOf(groups) ==
    LET RECURSIVE Build(_)
        Build(k) ==
            IF k = 0 THEN {EmptyTree}
            ELSE {Overlay(t, TreeOf(g)) : t \in Build(k - 1), g \in groups[k]}
    IN Build(Len(groups))

MirrorSources ==
    TreesOf(<<
        {{}, {<< <<".git">>, Dir >>, << <<".git", "config">>, File(<<"notes", "">>) >>},
             {<< <<".git">>, Dir >>, << <<".git", "config">>, File(<<"notes", "">>) >>,
              << <<".trash">>, Dir >>, << <<".trash", "old.md">>, File(<<"old", "">>) >>}},
        {{}, {<< <<"README.md">>, File(<<"about the notes", "">>) >>},
             {<< <<"README.md">>, Dir >>}},
        {{}, {<< <<".gitignore">>, File(<<"*.tmp", "">>) >>}},
        {{<< <<"a.md">>, File(<<"one", "">>) >>}},
        {{}, {<< <<"sub">>, Dir >>, << <<"sub", "README.md">>, File(<<"sub", "">>) >>},
             {<< <<"sub">>, Dir >>, << <<"sub", "README.md">>, File(<<"sub", "">>) >>,
              << <<"sub", ".Trash">>, Dir >>,
              << <<"sub", ".Trash", "gone.md">>, File(<<"gone", "">>) >>,
              << <<"sub", ".trash 2">>, File(<<"gone too", "">>) >>}}
    >>)

MirrorTargets ==
    TreesOf(<<
        {{}, {<< <<".git">>, Dir >>, << <<".git", "config">>, File(<<"backup", "">>) >>}},
        {{}, {<< <<"README.md">>, File(<<"about the backup", "">>) >>},
             {<< <<"README.md">>, Dir >>}},
        {{}, {<< <<".gitignore">>, File(<<"*.log", "">>) >>}},
        {{}, {<< <<"old.md">>, File(<<"stale", "">>) >>}},
        {{}, {<< <<"sub">>, Dir >>, << <<"sub", "x.md">>, File(<<"x", "">>) >>,
              << <<"sub", ".gitignore">>, File(<<"*.bak", "">>) >>}}
    >>)

\* the process variables, which the mirror on its own leaves alone
ProcessIdle ==
    /\ cfg = [logseqPath |-> "/notes", backupPath |-> "/backup", githubRepo |-> URL,
              logLevel |-> ""]
    /\ disk = [d \in Dirs |-> NoDir]
    /\ repo = NoRepo
    /\ remote = EmptyRemote
    /\ InitProcess
    /\ run = 1
    /\ atStart = [disk |-> disk, repo |-> repo, remote |-> remote, exit |-> 0]
    /\ edited = FALSE

MirrorInit ==
    /\ msrc \in MirrorSources
    /\ mdst \in MirrorTargets
    /\ mpre = mdst
    /\ mstep = "clear"
    /\ mpass = 1
    /\ NoManifest
    /\ NoCron
    /\ NoConverter
    /\ ProcessIdle

\* await clearDirectory(backupDir)
MirrorClear ==
    /\ mstep = "clear"
    /\ \/ /\ mdst' = clearDirectory(mdst)
          /\ mstep' = "copy"
       \/ /\ mdst' \in ClearPartial(mdst)
          /\ mstep' = "failed"
    /\ UNCHANGED <<msrc, mpre, mpass, cfg, disk, repo, remote, pc, exitCode, attempt,
                   currentLogLevel, logs, trace, fault, run, atStart, edited, signal, gvars, cvars, xvars>>

\* await fs.copy(sourceDir, backupDir, copyOptions)
MirrorCopy ==
    /\ mstep = "copy"
    /\ \/ /\ CopyCompletes(msrc, mdst)
          /\ mdst' = copyAll(msrc, mdst)
          /\ mstep' = "done"
       \/ /\ mdst' \in CopyPartial(msrc, mdst)
          /\ mstep' = "failed"
    /\ UNCHANGED <<msrc, mpre, mpass, cfg, disk, repo, remote, pc, exitCode, attempt,
                   currentLogLevel, logs, trace, fault, run, atStart, edited, signal, gvars, cvars, xvars>>

\* the next run's mirror, over the target the completed pass has left and the
\* same source
MirrorAgain ==
    /\ mstep = "done"
    /\ mpass < MaxPasses
    /\ mpre' = mdst
    /\ mstep' = "clear"
    /\ mpass' = mpass + 1
    /\ UNCHANGED <<msrc, mdst, cfg, disk, repo, remote, pc, exitCode, attempt,
                   currentLogLevel, logs, trace, fault, run, atStart, edited, signal, gvars, cvars, xvars>>

MirrorNext ==
    \/ MirrorClear
    \/ MirrorCopy
    \/ MirrorAgain

MirrorSpec == MirrorInit /\ [][MirrorNext]_vars

----------------------------------------------------------------------------
(* C10: preserve-set integrity *)

UnderGit(t) == {p \in DOMAIN t : p[1] = ".git"}

\* C10: whatever the source and the target hold, the mirror deletes no top-level
\* entry of the target named .git, README.md or .gitignore, and it leaves what
\* the target's .git directory holds as it was.
C10_PreservedEntriesSurvive ==
    /\ \A name \in preserveFiles :
          <<name>> \in DOMAIN mpre => <<name>> \in DOMAIN mdst
    /\ UnderGit(mdst) = UnderGit(mpre)
    /\ \A p \in UnderGit(mpre) : mdst[p] = mpre[p]

\* a mirror has completed from a source that has a .git, a README.md and a
\* .gitignore of its own onto a target that had all three
C10_Witness ==
    /\ mstep = "done"
    /\ \A name \in preserveFiles : <<name>> \in DOMAIN mpre \cap DOMAIN msrc
    /\ <<"old.md">> \in DOMAIN mpre

----------------------------------------------------------------------------
(* C11: exclude-set integrity *)

\* the base names the mirror is to leave behind
ExcludedNames == {".git", ".trash", ".trash 2", ".Trash"}

\* the paths of s that are an excluded entry or lie beneath one
ExcludedPaths(s) == {p \in DOMAIN s : \E i \in 1..Len(p) : p[i] \in ExcludedNames}

\* C11: after a mirror that completed, no source entry whose base name is .git,
\* .trash, ".trash 2" or .Trash, at any depth, and nothing beneath such an entry,
\* has been copied: at each such path the target holds what the cleared target
\* held (nothing, or what its own preserved entries hold there).
C11_ExcludedEntriesNotCopied ==
    mstep = "done" =>
        \A p \in ExcludedPaths(msrc) : Get(mdst, p) = Get(clearDirectory(mpre), p)

\* a mirror has completed from a source that holds a repository and a trash
\* directory at the top and two trash entries inside a directory that was copied
C11_Witness ==
    /\ mstep = "done"
    /\ <<".trash", "old.md">> \in DOMAIN msrc
    /\ <<".git", "config">> \in DOMAIN msrc
    /\ <<"sub", ".Trash", "gone.md">> \in DOMAIN msrc
    /\ <<"sub", ".trash 2">> \in DOMAIN msrc
    /\ <<"sub", "README.md">> \in DOMAIN mdst

----------------------------------------------------------------------------
(* C12: mirror idempotence *)

\* C12: when the mirror has completed twice in succession over an unchanged
\* source, the target holds exactly the paths and the contents it held after the
\* first pass.
C12_SecondMirrorChangesNothing ==
    (mstep = "done" /\ mpass = 2) => mdst = mpre

\* the second pass has completed over a target that had stale entries and
\* preserved entries the source has too
C12_Witness ==
    /\ mstep = "done"
    /\ mpass = 2
    /\ <<"README.md">> \in DOMAIN msrc \cap DOMAIN mdst
    /\ <<".gitignore">> \in DOMAIN msrc
    /\ <<"sub", "README.md">> \in DOMAIN mdst

----------------------------------------------------------------------------
(* ensureGitignore on its own: called twice on a directory that holds any   *)
(* manifest of up to MaxLines lines over the lines below, or none           *)

ManifestLines == {"", " ", ".trash", ".trash 2", ".Trash", "*.log"}

\* what split("\n") makes of the texts: the sequences of one to MaxLines lines
ManifestTexts ==
    UNION {[1..n -> ManifestLines] : n \in 1..MaxLines}

ManifestDirs ==
    {EmptyTree} \cup {TreeOf({<< <<".gitignore">>, File(lines) >>}) : lines \in ManifestTexts}

ManifestInit ==
    /\ gdir \in ManifestDirs
    /\ gonce = EmptyTree
    /\ gcalls = 0
    /\ NoMirror
    /\ NoCron
    /\ NoConverter
    /\ ProcessIdle

\* await ensureGitignore(backupDir)
ManifestCall ==
    /\ gcalls < 2
    /\ gdir' = ensureGitignore(gdir)
    /\ gonce' = IF gcalls = 0 THEN gdir' ELSE gonce
    /\ gcalls' = gcalls + 1
    /\ UNCHANGED <<cfg, disk, repo, remote, pc, exitCode, attempt, currentLogLevel,
                   logs, trace, fault, run, atStart, edited, signal, mvars, cvars, xvars>>

ManifestNext == ManifestCall

ManifestSpec == ManifestInit /\ [][ManifestNext]_vars

----------------------------------------------------------------------------
(* C13: the merge of the ignore manifest is idempotent and free of duplicates *)

NoLineTwice(lines) ==
    \A i, j \in DOMAIN lines : lines[i] = lines[j] => i = j

\* C13: whatever .gitignore the directory holds, or none, the manifest that
\* ensureGitignore writes contains no line twice, and a second call writes the
\* very manifest the first call wrote.
C13_ManifestMergeIdempotent ==
    /\ gcalls >= 1 =>
          /\ <<".gitignore">> \in DOMAIN gdir
          /\ NoLineTwice(gdir[<<".gitignore">>].data)
    /\ gcalls = 2 => gdir = gonce

\* the second call has been made, and the manifest holds a line of the user's
\* followed by the three required patterns
C13_Witness ==
    /\ gcalls = 2
    /\ gdir[<<".gitignore">>].data = <<"*.log", ".trash", ".trash 2", ".Trash", "">>

----------------------------------------------------------------------------
(* C14: a configuration error is fatal before any mutation *)

\* config.json lacks one of the three required keys, or holds it empty
RequiredKeyMissing ==
    \E key \in {"logseqPath", "backupPath", "githubRepo"} : cfg[key] = ""

\* C14: once a process whose config.json lacks a required key has gone past
\* the reading of the configuration, it has ended with a non-zero exit code, and
\* it has created, cleared, copied or written nothing on disk and run no git
\* command.
C14_ConfigErrorBeforeMutation ==
    (RequiredKeyMissing /\ pc # "load") =>
        /\ Ended
        /\ exitCode # 0
        /\ disk = atStart.disk
        /\ repo = atStart.repo
        /\ remote = atStart.remote
        /\ trace = <<>>

\* a process has ended on a configuration that names both directories and no
\* remote, in a world where the notes exist
C14_Witness ==
    /\ Ended
    /\ signal = "none"
    /\ exitCode = 1
    /\ cfg.githubRepo = ""
    /\ cfg.logseqPath = "/notes"
    /\ cfg.backupPath = "/backup"
    /\ disk["/notes"].exists

----------------------------------------------------------------------------
(* C15: the exit code of an interrupted process *)

\* C15: a process that SIGINT has reached, at whatever point of its life, has
\* run the cleanup hook and ended with exit code 2.
C15_InterruptExitsTwo ==
    signal = "SIGINT" =>
        /\ Ended
        /\ exitCode = 2
        /\ [level |-> "INFO", msg |-> "Cleanup completed"] \in logs

----------------------------------------------------------------------------
(* C16: timeout classification *)

TimedOut == \E i \in DOMAIN trace : trace[i].res = "timeout"

\* C16: in a run where a command did not complete within its timeout, the run
\* has ended with exit code 1 right there, and the diagnostic logged is "Command
\* timed out", not the "Error executing command" of a command that failed.
C16_TimeoutIsReportedAsTimeout ==
    TimedOut =>
        /\ Ended
        /\ exitCode = 1
        /\ LastCommand.res = "timeout"
        /\ [level |-> "ERROR", msg |-> "Command timed out"] \in logs
        /\ [level |-> "ERROR", msg |-> "Error executing command"] \notin logs

----------------------------------------------------------------------------
(* C17: the log level of a configuration that names none *)

NoLogLevel == ValidRun /\ cfg.logLevel = ""

\* C17 as stated: with no logLevel in the configuration only error-level events
\* are emitted.
C17_DefaultLevelIsError ==
    NoLogLevel => \A e \in logs : e.level = "ERROR"

\* C17 amended: with no logLevel in the configuration the logger stays at level
\* info: info events are emitted (the start of the backup is among them), a
\* warn event is emitted when the handler of SIGINT runs, an error event when
\* the run exits with code 1, and no debug event is emitted.
C17_DefaultLevelIsInfo ==
    NoLogLevel =>
        /\ currentLogLevel = LogLevel.INFO
        /\ [level |-> "INFO", msg |-> "Starting backup process"] \in logs
        /\ exitCode = 2 => [level |-> "WARN", msg |-> "Script interrupted"] \in logs
        /\ exitCode = 1 => \E e \in logs : e.level = "ERROR"
        /\ \A e \in logs : e.level # "DEBUG"

\* a run without logLevel has got through its commands to a push and ended
C17_Witness ==
    /\ NoLogLevel
    /\ Ended
    /\ exitCode = 0
    /\ Ran(PUSH)

----------------------------------------------------------------------------
(* C18: the retry policy, operation by operation *)

RetriedCommands == {FETCH, PUSH, "git remote add origin"}

SingleAttemptCommands == {STATUS, "git init"}

\* C18: when a run has ended, each of fetch, push and remote-add that failed in
\* it was attempted again, until it succeeded or had been attempted three times,
\* while the status query and git init were attempted at most once.
C18_RetryPolicy ==
    Ended =>
        /\ \A c \in RetriedCommands :
              Failed(c) => Succeeded(c) \/ Times(c) = maxRetries
        /\ \A c \in SingleAttemptCommands : Times(c) <= 1

----------------------------------------------------------------------------
(* C19: the order of the reconciliation *)

FreshOrder ==
    <<"git init", "git remote add origin", PROBE, STATUS, ADD, COMMIT, PUSH>>

ExistingOrder ==
    <<"git remote set-url origin", FETCH, CHECKOUT, PROBE, STATUS, ADD, COMMIT, PUSH>>

\* backupPath/.git was there when the run began
HadGitAtStart == <<".git">> \in DOMAIN atStart.disk[bak].tree

\* the command lines of the trace, in the order they were executed
CommandsOfRun == [i \in DOMAIN trace |-> trace[i].cmd]

\* C19: the commands a run has executed are, in order, the beginning of: git
\* init, git remote add origin, the probe, the status query, ... when
\* backupPath/.git was absent, and of: git remote set-url origin, git fetch
\* origin, the branch selection, the probe, the status query, ... when it was
\* present; each command but the last one succeeded; and once the probe has been
\* executed origin is bound to the configured URL.
C19_ReconcileOrder ==
    ValidRun =>
        /\ IsPrefix(CommandsOfRun, IF HadGitAtStart THEN ExistingOrder ELSE FreshOrder)
        /\ \A i \in DOMAIN trace : i < Len(trace) => trace[i].res = "ok"
        /\ Ran(PROBE) => repo.origin = cfg.githubRepo

\* a run over an existing repository has reached the status query
C19_Witness ==
    /\ ValidRun
    /\ HadGitAtStart
    /\ Succeeded(FETCH)
    /\ Succeeded(CHECKOUT)
    /\ Ran(STATUS)

----------------------------------------------------------------------------
(* C20: the diagnostic of an unreachable remote *)

\* C20: in a run whose probe failed, the error event logged is the one that
\* tells the operator to check the credentials and the repository URL, and not
\* the one of a command that failed.
C20_ProbeFailureDiagnostic ==
    Failed(PROBE) =>
        /\ [level |-> "ERROR",
            msg |-> "Error accessing remote repository. Please check your GitHub credentials and repository URL."]
               \in logs
        /\ [level |-> "ERROR", msg |-> "Error executing command"] \notin logs

----------------------------------------------------------------------------
(* C21: what a completed mirror leaves in the target *)

PreservedNames == {".git", "README.md", ".gitignore"}

\* the paths of t outside, and under, the top-level preserved names
Outside(t) == {p \in DOMAIN t : p[1] \notin PreservedNames}

Under(t) == {p \in DOMAIN t : p[1] \in PreservedNames}

\* the paths of s none of whose components has an excluded base name
Included(s) == DOMAIN s \ ExcludedPaths(s)

\* C21 as stated: after a mirror that completed, the target paths outside the
\* top-level preserved names are the source paths none of whose components has
\* an excluded base name.
C21_TargetIsFilteredSource ==
    mstep = "done" => Outside(mdst) = Included(msrc)

\* C21 amended: after a mirror that completed, the target paths outside the
\* top-level preserved names are the source paths outside those names none of
\* whose components has an excluded base name, each holding what the source
\* holds; so an earlier entry outside the preserved names, nested README.md and
\* .gitignore included, is gone unless the source supplies it. Under the
\* preserved names the target holds its earlier entries and the source's
\* README.md and .gitignore entries, written over them.
C21_MirrorResult ==
    mstep = "done" =>
        /\ Outside(mdst) = Included(msrc) \cap Outside(msrc)
        /\ \A p \in Outside(mdst) : mdst[p] = msrc[p]
        /\ Under(mdst) = Under(mpre) \cup (Included(msrc) \cap Under(msrc))
        /\ \A p \in Under(mdst) :
              mdst[p] = IF p \in Included(msrc) THEN msrc[p] ELSE mpre[p]

\* a mirror has completed over a target that held a stale file and a directory
\* with a .gitignore of its own, from a source that has a README.md and the
\* same directory
C21_Witness ==
    /\ mstep = "done"
    /\ mpass = 1
    /\ <<"old.md">> \in DOMAIN mpre
    /\ <<"sub", ".gitignore">> \in DOMAIN mpre
    /\ <<"sub", ".gitignore">> \notin DOMAIN mdst
    /\ <<"sub", "README.md">> \in DOMAIN mdst
    /\ <<"README.md">> \in DOMAIN msrc

----------------------------------------------------------------------------
(* C22: the content of the ignore manifest *)

RequiredPatterns == <<".trash", ".trash 2", ".Trash">>

\* a line that is empty or holds white space only
Blank(line) == line \in {"", " ", "\t"}

\* the lines of the manifest the directory t holds, <<>> when it holds none
ManifestOf(t) ==
    IF <<".gitignore">> \in DOMAIN t THEN t[<<".gitignore">>].data ELSE <<>>

Lines(text) == {text[i] : i \in DOMAIN text}

\* where line x first occurs in text
FirstAt(text, x) == CHOOSE i \in DOMAIN text :
    text[i] = x /\ \A j \in 1..(i - 1) : text[j] # x

\* new is old merged with the required patterns: its lines are the non-blank
\* lines of old and the patterns, each once, followed by the one empty piece a
\* single trailing newline leaves; the lines of old come first, in the order of
\* their first occurrence, then the patterns old did not hold, in their order
MergedManifest(old, new) ==
    LET body == SubSeq(new, 1, Len(new) - 1)
        kept == {x \in Lines(old) : ~Blank(x)}
        added == {x \in Lines(RequiredPatterns) : x \notin kept}
    IN /\ new # <<>>
       /\ new[Len(new)] = ""
       /\ Lines(body) = kept \cup added
       /\ \A i, j \in DOMAIN body : body[i] = body[j] => i = j
       /\ \A x, y \in kept :
             FirstAt(old, x) < FirstAt(old, y) => FirstAt(body, x) < FirstAt(body, y)
       /\ \A x \in kept, y \in added : FirstAt(body, x) < FirstAt(body, y)
       /\ \A x, y \in added :
             FirstAt(RequiredPatterns, x) < FirstAt(RequiredPatterns, y)
                 => FirstAt(body, x) < FirstAt(body, y)

\* C22: every call of ensureGitignore leaves a manifest whose lines are the
\* non-blank lines the file held before, in their order and each once, followed
\* by the required patterns it did not hold, with no blank line and one trailing
\* newline; when there was no file the manifest is the three required patterns.
C22_ManifestContent ==
    [][ManifestCall =>
          /\ MergedManifest(ManifestOf(gdir), ManifestOf(gdir'))
          /\ gdir = EmptyTree => ManifestOf(gdir') = RequiredPatterns \o <<"">>]_vars

\* the first call has met a manifest that held .Trash, a line of the user's
\* twice and a blank line, and has left the user's lines first
C22_Witness ==
    /\ gcalls = 1
    /\ ManifestOf(gdir) = <<".Trash", "*.log", ".trash", ".trash 2", "">>

----------------------------------------------------------------------------
(* C23: a fatal error stops the pipeline *)

ErrorReported == \E e \in logs : e.level = "ERROR"

SourceMissing == ValidRun /\ ~atStart.disk[src].exists

----------------------------------------------------------------------------
(* manage_cron_jobs.mjs. A text is the sequence of its lines (split on "\n"), *)
(* a line the sequence of the pieces it is written from, so that a regular   *)
(* expression made of an escaped literal is a test for a run of pieces       *)

\* new RegExp(escaped literal).test(line): the literal occurs somewhere in line
RegExpTest(literal, line) ==
    \E i \in 1..(Len(line) - Len(literal) + 1) :
        SubSeq(line, i, i + Len(literal) - 1) = literal

\* `${job.schedule} ${fullCommand}`
CronLine(job) ==
    <<job.schedule, " sh -c 'PATH=$PATH:/usr/local/bin:/usr/bin HOME=/home/u node /tools/">>
        \o job.command
        \o <<" >> /tools/logs/", job.name, ".log 2>&1 || echo $? >> /tools/logs/",
             job.name, "_error.log'">>

\* the lines with position index written over / with line appended
updateCron(lines, job) ==
    LET matches == {i \in DOMAIN lines : RegExpTest(job.command, lines[i])}
    IN IF matches # {}
       THEN LET index == CHOOSE i \in matches : \A j \in matches : i <= j
            IN [lines EXCEPT ![index] = CronLine(job)]
       ELSE Append(lines, CronLine(job))

deleteCron(lines, job) ==
    LET Keep(line) == ~RegExpTest(job.command, line)
    IN SelectSeq(lines, Keep)

RECURSIVE UpdateAll(_, _)
\* for (const job of config.cronJobs) crontab = updateCron(crontab, job)
UpdateAll(lines, jobs) ==
    IF jobs = <<>> THEN lines
    ELSE UpdateAll(updateCron(lines, Head(jobs)), Tail(jobs))

RECURSIVE DeleteAll(_, _)
\* for (const job of config.cronJobs) crontab = deleteCron(crontab, job)
DeleteAll(lines, jobs) ==
    IF jobs = <<>> THEN lines
    ELSE DeleteAll(deleteCron(lines, Head(jobs)), Tail(jobs))

\* the jobs a config.json can name: the command of the second is the end of the
\* command of the first
CronJobs ==
    {[name |-> "github", schedule |-> "0 * * * *", command |-> <<"github-", "backup.mjs">>],
     [name |-> "backup", schedule |-> "30 2 * * *", command |-> <<"backup.mjs">>],
     [name |-> "prune", schedule |-> "0 3 * * 0", command |-> <<"prune.mjs">>]}

JobLists ==
    {js \in UNION {[1..n -> CronJobs] : n \in 1..MaxJobs} :
        \A i, j \in DOMAIN js : js[i] = js[j] => i = j}

\* a line of the user's own
ForeignLine == <<"@reboot", " /usr/bin/updatedb">>

\* the line an earlier configuration, with another schedule, left for job
OldCronLine(job) == CronLine([job EXCEPT !.schedule = "5 5 * * *"])

\* what crontab -l gives: no crontab (the text ""), or lines each ended by "\n"
Crontabs ==
    {<< <<>> >>} \cup
    {ls \o << <<>> >> :
        ls \in UNION {[1..n -> {ForeignLine} \cup {OldCronLine(j) : j \in CronJobs}] :
                          n \in 1..MaxCronLines}}

CronInit ==
    /\ crontab \in Crontabs
    /\ cjobs \in JobLists
    /\ cinit = crontab
    /\ cadds = 0
    /\ cdeleted = FALSE
    /\ NoMirror
    /\ NoManifest
    /\ NoConverter
    /\ ProcessIdle

\* node manage_cron_jobs.mjs --add: the crontab is read, every job is updated
\* or added, the result is installed
CronAdd ==
    /\ ~cdeleted
    /\ cadds < MaxAdds
    /\ crontab' = UpdateAll(crontab, cjobs)
    /\ cadds' = cadds + 1
    /\ UNCHANGED <<cjobs, cinit, cdeleted, cfg, disk, repo, remote, pc, exitCode, attempt,
                   currentLogLevel, logs, trace, fault, run, atStart, edited, signal,
                   mvars, gvars, xvars>>

\* node manage_cron_jobs.mjs --delete
CronDelete ==
    /\ ~cdeleted
    /\ crontab' = DeleteAll(crontab, cjobs)
    /\ cdeleted' = TRUE
    /\ UNCHANGED <<cjobs, cinit, cadds, cfg, disk, repo, remote, pc, exitCode, attempt,
                   currentLogLevel, logs, trace, fault, run, atStart, edited, signal,
                   mvars, gvars, xvars>>

CronNext ==
    \/ CronAdd
    \/ CronDelete

CronSpec == CronInit /\ [][CronNext]_vars

----------------------------------------------------------------------------
(* C24: the registration of the cron jobs *)

ConfiguredJobs == {cjobs[i] : i \in DOMAIN cjobs}

\* the number of lines of the crontab that are line
Count(line) == Cardinality({i \in DOMAIN crontab : crontab[i] = line})

\* a line that is, or was written as, the line of a job of the tool
IsJobLine(line) == \E j \in CronJobs : line \in {CronLine(j), OldCronLine(j)}

\* the lines of text that are the user's own, in their order
UserLines(text) ==
    LET Own(line) == line # <<>> /\ ~IsJobLine(line)
    IN SelectSeq(text, Own)

\* C24: after one run with --add, or several, the crontab holds exactly one
\* line for each configured job, with that job's schedule and command, and the
\* user's own lines as they were; after a run with --delete it holds no line of
\* a configured job, and the user's own lines as they were.
C24_CronRegistration ==
    /\ UserLines(crontab) = UserLines(cinit)
    /\ (cadds >= 1 /\ ~cdeleted) =>
          \A job \in ConfiguredJobs :
              /\ Count(CronLine(job)) = 1
              /\ Count(OldCronLine(job)) = 0
    /\ (cadds >= 1 /\ cdeleted) =>
          \A job \in ConfiguredJobs :
              Count(CronLine(job)) = 0 /\ Count(OldCronLine(job)) = 0


\* ------------------------------------------------------------------------
\* The image converter (src/unnamed/part_002)
\*
\* An image reference of a Markdown file is kept as the image file it
\* resolves to; every file of a run names the pictures of one directory.
\* Each await of the code is one step: a started call runs to its next await
\* without interleaving, and calls waiting on the file system resume in any
\* order.
\* ------------------------------------------------------------------------

MaxConcurrency == 2

supportedImageFormats == {".jpg", ".jpeg", ".png", ".tiff", ".gif"}

\* path.extname(p).toLowerCase() of the paths a run meets.
extname(p) ==
    CASE p = "x.png" -> ".png"
      [] p = "x.webp" -> ".webp"
      [] p \in {"a.md", "b.md", "c.md", "d.md"} -> ".md"
      [] OTHER -> ""

\* filePath.replace(/\.[^/.]+$/, ".webp")
webpPathOf(p) ==
    CASE p = "x.png" -> "x.webp"
      [] OTHER -> p

\* content.replace(imgPath, relativePath): a string pattern replaces the
\* first occurrence only.
RECURSIVE replaceFirst(_, _, _)
replaceFirst(content, imgPath, newPath) ==
    IF content = <<>> THEN <<>>
    ELSE IF Head(content) = imgPath THEN <<newPath>> \o Tail(content)
    ELSE <<Head(content)>> \o replaceFirst(Tail(content), imgPath, newPath)

\* The conversions processMarkdownFile starts, in the order of the matches of
\* imgRegex: one per reference with a supported extension.
RECURSIVE conversionsOf(_)
conversionsOf(content) ==
    IF content = <<>> THEN <<>>
    ELSE IF extname(Head(content)) \in supportedImageFormats
         THEN <<[img |-> Head(content), st |-> "access"]>>
              \o conversionsOf(Tail(content))
         ELSE conversionsOf(Tail(content))

MdFile(n) == [name |-> n, kind |-> "md"]
Folder(n) == [name |-> n, kind |-> "dir"]

\* The directory trees of the runs: two files side by side, and a file listed
\* before a Logseq folder and a folder of two files.
ConverterLayouts ==
    { [root |-> <<MdFile("a.md"), MdFile("b.md")>>],
      [root |-> <<MdFile("a.md"), Folder("logseq"), Folder("sub")>>,
       logseq |-> <<MdFile("d.md")>>,
       sub |-> <<MdFile("b.md"), MdFile("c.md")>>] }

MdNames == {"a.md", "b.md", "c.md", "d.md"}

skippedFolder(n) == n \in {"logseq", ".trash"}

NewTask == [st |-> "idle", content |-> <<>>, convs |-> <<>>]

Frame(l, d) == [dir |-> d, rest |-> l[d], pending |-> {}, wait |-> "no"]

NoProcess ==
    /\ ProcessIdle
    /\ NoMirror
    /\ NoManifest
    /\ NoCron

ConvertInit ==
    /\ NoProcess
    /\ xlayout \in ConverterLayouts
    /\ \E a \in {<<"x.png">>, <<"x.png", "x.png">>} :
       \E b \in {<<>>, <<"x.png">>} :
       \E c \in {<<>>, <<"x.png">>} :
          xfiles = [n \in MdNames |->
                       CASE n = "a.md" -> a
                         [] n = "b.md" -> b
                         [] n = "c.md" /\ "sub" \in DOMAIN xlayout -> c
                         [] OTHER -> <<>>]
    /\ ximages = {"x.png"}
    /\ xopts \in [concurrency : 1..MaxConcurrency, keepOriginal : BOOLEAN]
    /\ xstack = <<Frame(xlayout, "root")>>
    /\ xtasks = [n \in MdNames |-> NewTask]

XTop == xstack[Len(xstack)]

XSetTop(f) == [xstack EXCEPT ![Len(xstack)] = f]

AllDone(ts) == \A t \in ts : xtasks[t].st = "done"

XOther == <<cfg, disk, repo, remote, pc, exitCode, attempt, currentLogLevel,
            logs, trace, fault, run, atStart, edited, signal, mvars, gvars,
            cvars>>

\* processDirectory, a directory entry: the loop calls itself on it and
\* awaits the call, and the promises of the files met so far stay pending.
Descend ==
    /\ xstack # <<>>
    /\ XTop.wait = "no"
    /\ XTop.rest # <<>>
    /\ Head(XTop.rest).kind = "dir"
    /\ ~skippedFolder(Head(XTop.rest).name)
    /\ xstack' = Append(XSetTop([XTop EXCEPT !.rest = Tail(@)]),
                        Frame(xlayout, Head(XTop.rest).name))
    /\ UNCHANGED <<xlayout, xfiles, ximages, xopts, xtasks>>
    /\ UNCHANGED XOther

\* processDirectory, a folder named logseq or .trash: continue.
SkipFolder ==
    /\ xstack # <<>>
    /\ XTop.wait = "no"
    /\ XTop.rest # <<>>
    /\ Head(XTop.rest).kind = "dir"
    /\ skippedFolder(Head(XTop.rest).name)
    /\ xstack' = XSetTop([XTop EXCEPT !.rest = Tail(@)])
    /\ UNCHANGED <<xlayout, xfiles, ximages, xopts, xtasks>>
    /\ UNCHANGED XOther

\* processDirectory, a Markdown file: processMarkdownFile is called (it runs
\* to its readFile) and its promise pushed; a full batch is awaited.
StartMarkdown ==
    /\ xstack # <<>>
    /\ XTop.wait = "no"
    /\ XTop.rest # <<>>
    /\ Head(XTop.rest).kind = "md"
    /\ extname(Head(XTop.rest).name) = ".md"
    /\ LET n == Head(XTop.rest).name
           pend == XTop.pending \cup {n}
       IN /\ xtasks' = [xtasks EXCEPT ![n].st = "read"]
          /\ xstack' = XSetTop([XTop EXCEPT
                 !.rest = Tail(@),
                 !.pending = pend,
                 !.wait = IF Cardinality(pend) >= xopts.concurrency
                          THEN "batch" ELSE "no"])
    /\ UNCHANGED <<xlayout, xfiles, ximages, xopts>>
    /\ UNCHANGED XOther

\* processDirectory: the awaited batch has completed; processingPromises is
\* emptied and the loop goes on.
BatchDone ==
    /\ xstack # <<>>
    /\ XTop.wait = "batch"
    /\ AllDone(XTop.pending)
    /\ xstack' = XSetTop([XTop EXCEPT !.pending = {}, !.wait = "no"])
    /\ UNCHANGED <<xlayout, xfiles, ximages, xopts, xtasks>>
    /\ UNCHANGED XOther

\* processDirectory, after the loop: the remaining promises are awaited and
\* the call returns to the directory above.
DirectoryDone ==
    /\ xstack # <<>>
    /\ XTop.wait = "no"
    /\ XTop.rest = <<>>
    /\ AllDone(XTop.pending)
    /\ xstack' = SubSeq(xstack, 1, Len(xstack) - 1)
    /\ UNCHANGED <<xlayout, xfiles, ximages, xopts, xtasks>>
    /\ UNCHANGED XOther

\* processMarkdownFile: readFile has answered; the loop over the matches
\* starts one convertToWebP per supported reference, each running to its
\* fs.access.
TaskRead(t) ==
    /\ xtasks[t].st = "read"
    /\ xtasks' = [xtasks EXCEPT ![t] =
           [st |-> "converting", content |-> xfiles[t],
            convs |-> conversionsOf(xfiles[t])]]
    /\ UNCHANGED <<xlayout, xfiles, ximages, xopts, xstack>>
    /\ UNCHANGED XOther

\* The promise of conversion k of task t resolves with newPath and its .then
\* rewrites the content.
Resolved(t, k, newPath) ==
    [xtasks EXCEPT
        ![t].convs[k].st = "done",
        ![t].content = replaceFirst(@, xtasks[t].convs[k].img, newPath)]

\* convertToWebP: fs.access of the .webp path has answered; an existing
\* .webp makes the call return the path it was given.
ConvAccess(t, k) ==
    /\ xtasks[t].st = "converting"
    /\ k \in DOMAIN xtasks[t].convs
    /\ xtasks[t].convs[k].st = "access"
    /\ LET img == xtasks[t].convs[k].img
       IN IF webpPathOf(img) \in ximages
          THEN xtasks' = Resolved(t, k, img)
          ELSE xtasks' = [xtasks EXCEPT ![t].convs[k].st = "convert"]
    /\ UNCHANGED <<xlayout, xfiles, ximages, xopts, xstack>>
    /\ UNCHANGED XOther

\* convertToWebP: sharp has written the .webp file, or failed on a missing
\* input and the catch returns the path given; with keepOriginal the call
\* returns the .webp path, without it trash is called.
ConvConvert(t, k) ==
    /\ xtasks[t].st = "converting"
    /\ k \in DOMAIN xtasks[t].convs
    /\ xtasks[t].convs[k].st = "convert"
    /\ LET img == xtasks[t].convs[k].img
       IN IF img \notin ximages
          THEN /\ xtasks' = Resolved(t, k, img)
               /\ UNCHANGED ximages
          ELSE /\ ximages' = ximages \cup {webpPathOf(img)}
               /\ xtasks' = IF xopts.keepOriginal
                            THEN Resolved(t, k, webpPathOf(img))
                            ELSE [xtasks EXCEPT ![t].convs[k].st = "trash"]
    /\ UNCHANGED <<xlayout, xfiles, xopts, xstack>>
    /\ UNCHANGED XOther

\* convertToWebP: trash has answered. The original is moved away and the call
\* returns the .webp path; on an original that is already gone the library
\* either ignores the path or rejects, and the catch returns the path given.
ConvTrash(t, k) ==
    /\ xtasks[t].st = "converting"
    /\ k \in DOMAIN xtasks[t].convs
    /\ xtasks[t].convs[k].st = "trash"
    /\ LET img == xtasks[t].convs[k].img
       IN \/ /\ ximages' = ximages \ {img}
             /\ xtasks' = Resolved(t, k, webpPathOf(img))
          \/ /\ img \notin ximages
             /\ UNCHANGED ximages
             /\ xtasks' = Resolved(t, k, img)
    /\ UNCHANGED <<xlayout, xfiles, xopts, xstack>>
    /\ UNCHANGED XOther

\* processMarkdownFile: Promise.all of the conversions has resolved and
\* writeFile has stored the content; the promise of the file resolves.
TaskWrite(t) ==
    /\ xtasks[t].st = "converting"
    /\ \A k \in DOMAIN xtasks[t].convs : xtasks[t].convs[k].st = "done"
    /\ xfiles' = [xfiles EXCEPT ![t] = xtasks[t].content]
    /\ xtasks' = [xtasks EXCEPT ![t].st = "done"]
    /\ UNCHANGED <<xlayout, ximages, xopts, xstack>>
    /\ UNCHANGED XOther

ConvertNext ==
    \/ Descend
    \/ SkipFolder
    \/ StartMarkdown
    \/ BatchDone
    \/ DirectoryDone
    \/ \E t \in MdNames : TaskRead(t)
    \/ \E t \in MdNames : \E k \in DOMAIN xtasks[t].convs : ConvAccess(t, k)
    \/ \E t \in MdNames : \E k \in DOMAIN xtasks[t].convs : ConvConvert(t, k)
    \/ \E t \in MdNames : \E k \in DOMAIN xtasks[t].convs : ConvTrash(t, k)
    \/ \E t \in MdNames : TaskWrite(t)

ConvertSpec == ConvertInit /\ [][ConvertNext]_vars

ConverterFinished == xstack = <<>>

\* The files the traversal handed to processMarkdownFile.
ProcessedFiles == {n \in MdNames : xtasks[n].st = "done"}

\* C25: with keepOriginal = false, once the converter has finished, every
\* image reference of every processed Markdown file names a file that exists.
C25_LinksStayValid ==
    (ConverterFinished /\ ~xopts.keepOriginal)
        => \A n \in ProcessedFiles :
              \A i \in DOMAIN xfiles[n] : xfiles[n][i] \in ximages

\* The call of processMarkdownFile on file n is in flight: started and not
\* yet completed.
InFlight == {n \in MdNames : xtasks[n].st \in {"read", "converting"}}

\* C26: at every moment of a run, the number of processMarkdownFile calls
\* started and not yet completed is at most the concurrency option.
C26_ConcurrencyCeiling ==
    Cardinality(InFlight) <= xopts.concurrency

====
